---- MODULE Spec2Model ----
(***************************************************************************)
(* Synthea -> OMOP CDM mapping pipeline (etl_omop_fhir/run_etl.py,         *)
(* etl_engine/synthea_omop_mapper.py, etl_engine/base_etl.py) and the      *)
(* de-identification script (datashield_vignette/prepare_data.py).         *)
(*                                                                         *)
(* Values.  A nullable value (NaN / NaT / None) is a sequence of length    *)
(* at most one: <<>> is null, <<v>> is the value v.  A timestamp is a      *)
(* number of ticks, TicksPerDay ticks to the day.  A CSV date cell is a    *)
(* record [kind, t]: an empty cell, a parseable date, or text that is not  *)
(* a date.  Columns the mappers fill with a literal None or 0 and the      *)
(* year/month/day decomposition of the birth date are not carried.         *)
(***************************************************************************)
EXTENDS Integers, Sequences, FiniteSets, TLC

\* ------------------------------------------------------------------ bounds
MaxPatients == 2
MaxConditions == 2
MaxMeds == 2
MaxTime == 2
TicksPerDay == 2

\* --------------------------------------------------------------- functions
Null == <<>>
Some(v) == <<v>>

Times == 0..MaxTime

NA == [kind |-> "na", t |-> 0]
Bad == [kind |-> "bad", t |-> 0]
DateCell(t) == [kind |-> "date", t |-> t]

SeqsUpTo(S, n) == UNION {[1..k -> S] : k \in 0..n}

\* pd.to_datetime(col) with errors="raise": raises on text that is no date
ParseRaises(col) == \E i \in DOMAIN col : col[i].kind = "bad"

\* pd.to_datetime of one cell once it does not raise, or with
\* errors="coerce": a date parses, anything else is NaT
ToDatetime(cell) == IF cell.kind = "date" THEN Some(cell.t) ELSE Null

\* Series.fillna(other) on one element
FillNa(v, other) == IF v = Null THEN other ELSE v

\* (end - start).dt.days on one element: the floor of the difference in days
DaysBetween(end, start) ==
    IF end = Null \/ start = Null THEN Null
    ELSE Some((end[1] - start[1]) \div TicksPerDay)

\* Series.dt.year on one element, counted from the year of tick 0 (a year of
\* 365 days: leap days are not modelled)
YearOf(ts) == IF ts = Null THEN Null ELSE Some(ts[1] \div (365 * TicksPerDay))

\* range(1, n + 1) as a column
SurrogateIds_ZeroBased(n) == [i \in 1..n |-> i - 1]
SurrogateIds(n) == [i \in 1..n |-> i]

\* dict[key] = value
DictSet(m, key, value) ==
    [x \in DOMAIN m \cup {key} |-> IF x = key THEN value ELSE m[x]]

\* for synthea_id, omop_id in zip(keys, vals): m[synthea_id] = omop_id,
\* the first k pairs
RECURSIVE StoreMapping(_, _, _, _)
StoreMapping(m, keys, vals, k) ==
    IF k = 0 THEN m
    ELSE DictSet(StoreMapping(m, keys, vals, k - 1), keys[k], vals[k])

\* Series.map(dict): a key the dict lacks gives NaN
MapSeries_FillZero(col, m) ==
    [i \in DOMAIN col |-> IF col[i] \in DOMAIN m THEN Some(m[col[i]]) ELSE Some(0)]
MapSeries(col, m) ==
    [i \in DOMAIN col |-> IF col[i] \in DOMAIN m THEN Some(m[col[i]]) ELSE Null]

\* Series.map(dict).fillna(0) on one element
ConceptOf(dict, code) == IF code \in DOMAIN dict THEN dict[code] ELSE 0

GenderConceptMap_Swapped ==
    ("F" :> 8507) @@ ("M" :> 8532) @@ ("female" :> 8507) @@ ("male" :> 8532)
GenderConceptMap ==
    ("F" :> 8532) @@ ("M" :> 8507) @@ ("female" :> 8532) @@ ("male" :> 8507)
RaceConceptMap ==
    ("white" :> 8527) @@ ("black" :> 8516) @@ ("asian" :> 8515) @@ ("other" :> 8522)
EthnicityConceptMap ==
    ("hispanic" :> 38003563) @@ ("nonhispanic" :> 38003564)

PeriodTypeConceptId == 44814724
ConditionTypeConceptId == 32020
StatusActive == 4203942
StatusResolved == 4230359
DrugTypeConceptId == 38000177

Column(df, name) == [i \in DOMAIN df |-> df[i][name]]

EmptyDict == [x \in {} |-> 0]

\* ------------------------------------------------------------ the mappers
\* map_person: the person DataFrame built from patients.csv
PersonTable(pats) ==
    LET ids == SurrogateIds(Len(pats))
    IN  [i \in DOMAIN ids |->
            [person_id |-> ids[i],
             gender_concept_id |-> ConceptOf(GenderConceptMap, pats[i].GENDER),
             year_of_birth |-> YearOf(ToDatetime(pats[i].BIRTHDATE)),
             birth_datetime |-> ToDatetime(pats[i].BIRTHDATE),
             race_concept_id |-> ConceptOf(RaceConceptMap, pats[i].RACE),
             ethnicity_concept_id |->
                 ConceptOf(EthnicityConceptMap, pats[i].ETHNICITY),
             person_source_value |-> pats[i].Id,
             gender_source_value |-> pats[i].GENDER,
             race_source_value |-> pats[i].RACE,
             ethnicity_source_value |-> pats[i].ETHNICITY]]

\* map_person: the identity map after the zip loop
PersonIdMap(m, pats) ==
    StoreMapping(m, Column(pats, "Id"), SurrogateIds(Len(pats)), Len(pats))

\* map_observation_period: the observation_period DataFrame
ObservationPeriodTable(pats, m, now) ==
    LET ids == SurrogateIds(Len(pats))
        person == MapSeries(Column(pats, "Id"), m)
    IN  [i \in DOMAIN ids |->
            [observation_period_id |-> ids[i],
             person_id |-> person[i],
             observation_period_start_date |-> ToDatetime(pats[i].BIRTHDATE),
             observation_period_end_date |->
                 FillNa(ToDatetime(pats[i].DEATHDATE), Some(now)),
             period_type_concept_id |-> PeriodTypeConceptId]]

\* map_condition_occurrence: the condition_occurrence DataFrame
ConditionTable(conds, m) ==
    LET ids == SurrogateIds(Len(conds))
        person == MapSeries(Column(conds, "PATIENT"), m)
    IN  [i \in DOMAIN ids |->
            [condition_occurrence_id |-> ids[i],
             person_id |-> person[i],
             condition_concept_id |-> 0,
             condition_source_value |-> conds[i].CODE,
             condition_start_date |-> ToDatetime(conds[i].START),
             condition_end_date |-> ToDatetime(conds[i].STOP),
             condition_type_concept_id |-> ConditionTypeConceptId,
             condition_status_concept_id |->
                 IF ToDatetime(conds[i].STOP) = Null
                 THEN StatusActive ELSE StatusResolved]]

\* map_drug_exposure: the resolved end date of one medication row
DrugEndDate_NoDefault(med) == ToDatetime(med.STOP)
DrugEndDate(med) == FillNa(ToDatetime(med.STOP), ToDatetime(med.START))

\* map_drug_exposure: the drug_exposure DataFrame
DrugTable(meds, m) ==
    LET ids == SurrogateIds(Len(meds))
        person == MapSeries(Column(meds, "PATIENT"), m)
    IN  [i \in DOMAIN ids |->
            [drug_exposure_id |-> ids[i],
             person_id |-> person[i],
             drug_concept_id |-> 0,
             drug_source_value |-> meds[i].CODE,
             drug_exposure_start_date |-> ToDatetime(meds[i].START),
             drug_exposure_end_date |-> DrugEndDate(meds[i]),
             drug_type_concept_id |-> DrugTypeConceptId,
             stop_reason |-> meds[i].REASONCODE,
             days_supply |->
                 DaysBetween(DrugEndDate(meds[i]), ToDatetime(meds[i].START))]]

\* ------------------------------------------------------------------ state
VARIABLES
    csv_files,      \* names of the CSV files present in data/raw
    patients,       \* rows of patients.csv
    conditions,     \* rows of conditions.csv
    medications,    \* rows of medications.csv
    person_id_map,  \* SyntheaOMOPMapper.person_id_map
    db,             \* the four target tables of the store
    pc,             \* where main() of run_etl.py is
    result,         \* what main() returned, null until it returns
    raised,         \* the exception main() caught, null if none
    log,            \* the stage lines the logger has written
    clean,          \* prepare_data.py: person_clean, conditions_clean, drugs_clean
    date_shift,     \* prepare_data.py: date_shift, null until drawn
    pickle,         \* prepare_data.py: the dumped container, null until saved
    deid_pc         \* where prepare_data.py is

vars == <<csv_files, patients, conditions, medications, person_id_map, db, pc,
          result, raised, log, clean, date_shift, pickle, deid_pc>>

inputs == <<csv_files, patients, conditions, medications>>
deid == <<clean, date_shift, pickle, deid_pc>>

EmptyDb ==
    [person |-> <<>>, observation_period |-> <<>>,
     condition_occurrence |-> <<>>, drug_exposure |-> <<>>]

EmptyClean == [person |-> <<>>, conditions |-> <<>>, drugs |-> <<>>]

\* ----------------------------------------------------------------- inputs
PatientRow(id, g, r, e, b, d) ==
    [Id |-> id, GENDER |-> g, RACE |-> r, ETHNICITY |-> e,
     BIRTHDATE |-> b, DEATHDATE |-> d]
ConditionRow(p, c, s, e) ==
    [PATIENT |-> p, CODE |-> c, START |-> s, STOP |-> e]
MedicationRow(p, c, s, e, r) ==
    [PATIENT |-> p, CODE |-> c, START |-> s, STOP |-> e, REASONCODE |-> r]

AllCsv == {"patients.csv", "conditions.csv", "medications.csv"}

\* an empty cell reads as NaN; "X" stands for any code no lookup table has
GenderCells == {"F", "M", "female", "male", "X", ""}
RaceCells == {"white", "black", "asian", "other", "X", ""}
EthnicityCells == {"hispanic", "nonhispanic", "X", ""}

SamplePatients ==
    << PatientRow("p1", "F", "white", "hispanic", DateCell(0), DateCell(MaxTime)),
       PatientRow("p2", "M", "black", "nonhispanic", DateCell(1), DateCell(MaxTime)) >>
SampleConditions ==
    << ConditionRow("p1", "c1", DateCell(0), NA),
       ConditionRow("p3", "c2", DateCell(1), DateCell(MaxTime)) >>
SampleMedications ==
    << MedicationRow("p3", "m1", DateCell(0), NA, "r1"),
       MedicationRow("p1", "m2", DateCell(0), DateCell(MaxTime), "") >>

\* patients.csv: repeated identifiers, malformed birth dates, living patients
PatientFiles ==
    SeqsUpTo({PatientRow(id, "F", "white", "hispanic", b, d) :
                 id \in {"p1", "p2"}, b \in {DateCell(0), Bad},
                 d \in {NA, DateCell(MaxTime)}}, MaxPatients)
\* patients.csv: one patient, every demographic code
DemographicFiles ==
    {<<PatientRow("p1", g, r, e, DateCell(0), d)>> :
        g \in GenderCells, r \in RaceCells, e \in EthnicityCells,
        d \in {DateCell(MaxTime), Bad}}
\* conditions.csv: mapped and unmapped patients, malformed start dates
ConditionFiles ==
    SeqsUpTo({ConditionRow(p, "c1", s, e) :
                 p \in {"p1", "p3"}, s \in {DateCell(t) : t \in Times} \cup {Bad},
                 e \in {NA, DateCell(MaxTime)}}, MaxConditions)
\* medications.csv: mapped and unmapped patients, stop dates absent, unparseable, before and after the start
MedicationFiles ==
    SeqsUpTo({MedicationRow(p, "m1", s, e, "") :
                 p \in {"p1", "p3"}, s \in {DateCell(t) : t \in Times} \cup {Bad},
                 e \in {NA, Bad, DateCell(0), DateCell(MaxTime)}}, MaxMeds)

InitInputs ==
    \/ /\ csv_files = AllCsv
       /\ \/ /\ patients \in PatientFiles
             /\ conditions \in {<<>>, SampleConditions}
             /\ medications \in {<<>>, SampleMedications}
          \/ /\ patients \in DemographicFiles
             /\ conditions = <<>>
             /\ medications = <<>>
          \/ /\ patients = SamplePatients
             /\ conditions \in ConditionFiles
             /\ medications = <<>>
          \/ /\ patients = SamplePatients
             /\ conditions = <<>>
             /\ medications \in MedicationFiles
    \/ /\ csv_files \in (SUBSET AllCsv) \ {AllCsv}
       /\ patients = IF "patients.csv" \in csv_files THEN SamplePatients ELSE <<>>
       /\ conditions =
              IF "conditions.csv" \in csv_files THEN SampleConditions ELSE <<>>
       /\ medications =
              IF "medications.csv" \in csv_files THEN SampleMedications ELSE <<>>

Init ==
    /\ InitInputs
    /\ person_id_map = EmptyDict
    /\ db = EmptyDb
    /\ pc = "start"
    /\ result = Null
    /\ raised = Null
    /\ log = <<>>
    /\ clean = EmptyClean
    /\ date_shift = Null
    /\ pickle = Null
    /\ deid_pc = "load"

\* -------------------------------------------------------------- pipeline
\* run_etl: the stage called after stage s, "returned" after the last
NextStage_DrugBeforeCondition(s) ==
    CASE s = "person" -> "obs"
      [] s = "obs" -> "drug"
      [] s = "drug" -> "cond"
      [] s = "cond" -> "returned"
NextStage(s) ==
    CASE s = "person" -> "obs"
      [] s = "obs" -> "cond"
      [] s = "cond" -> "drug"
      [] s = "drug" -> "returned"

\* len(df) == 0
IsEmpty_OffByOne(df) == Len(df) = 1
IsEmpty(df) == Len(df) = 0

\* a stage raises: run_etl propagates, main() logs the failure and returns False
Raise(kind, entries) ==
    /\ pc' = "returned"
    /\ result' = Some(FALSE)
    /\ raised' = Some(kind)
    /\ log' = log \o entries \o <<"pipeline_failed">>

\* a stage returns: run_etl calls the next one, or main() returns True
Return(stage, entries) ==
    /\ pc' = NextStage(stage)
    /\ raised' = raised
    /\ IF NextStage(stage) = "returned"
       THEN /\ result' = Some(TRUE)
            /\ log' = log \o entries \o <<"etl_complete">>
       ELSE /\ result' = result
            /\ log' = log \o entries

\* bulk_insert: the store appends the rows, or rejects them and the stage raises
BulkInsert(stage, table, df, entries) ==
    \/ /\ db' = [db EXCEPT ![table] = @ \o df]
       /\ Return(stage, entries)
    \/ /\ db' = db
       /\ Raise("SQLAlchemyError", <<entries[1]>>)

Main ==
    /\ pc = "start"
    /\ IF csv_files = {}
       THEN /\ pc' = "returned"
            /\ result' = Some(FALSE)
            /\ log' = Append(log, "no_csv_files")
       ELSE /\ pc' = "person"
            /\ result' = result
            /\ log' = log
    /\ UNCHANGED <<inputs, person_id_map, db, raised, deid>>

MapPerson ==
    /\ pc = "person"
    /\ IF "patients.csv" \notin csv_files
       THEN /\ Raise("FileNotFoundError", <<"[1/4]">>)
            /\ UNCHANGED <<person_id_map, db>>
       ELSE /\ person_id_map' = PersonIdMap(person_id_map, patients)
            /\ IF ParseRaises(Column(patients, "BIRTHDATE"))
               THEN /\ Raise("ValueError", <<"[1/4]">>)
                    /\ db' = db
               ELSE BulkInsert("person", "person", PersonTable(patients),
                               <<"[1/4]", "persons_mapped">>)
    /\ UNCHANGED <<inputs, deid>>

ObservationPeriodStage ==
    /\ pc = "obs"
    /\ IF "patients.csv" \notin csv_files
       THEN /\ Raise("FileNotFoundError", <<"[2/4]">>)
            /\ db' = db
       ELSE IF ParseRaises(Column(patients, "BIRTHDATE"))
            THEN /\ Raise("ValueError", <<"[2/4]">>)
                 /\ db' = db
            ELSE \E now \in {MaxTime, MaxTime + 1} :
                    BulkInsert("obs", "observation_period",
                               ObservationPeriodTable(patients, person_id_map, now),
                               <<"[2/4]", "observation_periods_created">>)

MapObservationPeriod_ResetsMap ==
    /\ ObservationPeriodStage
    /\ person_id_map' = EmptyDict
    /\ UNCHANGED <<inputs, deid>>
MapObservationPeriod ==
    /\ ObservationPeriodStage
    /\ UNCHANGED <<inputs, person_id_map, deid>>

MapConditionOccurrence ==
    /\ pc = "cond"
    /\ IF "conditions.csv" \notin csv_files
       THEN /\ Raise("FileNotFoundError", <<"[3/4]">>)
            /\ db' = db
       ELSE IF IsEmpty(conditions)
            THEN /\ Return("cond", <<"[3/4]", "no_conditions">>)
                 /\ db' = db
            ELSE IF ParseRaises(Column(conditions, "START"))
                 THEN /\ Raise("ValueError", <<"[3/4]">>)
                      /\ db' = db
                 ELSE BulkInsert("cond", "condition_occurrence",
                                 ConditionTable(conditions, person_id_map),
                                 <<"[3/4]", "conditions_mapped">>)
    /\ UNCHANGED <<inputs, person_id_map, deid>>

MapDrugExposure ==
    /\ pc = "drug"
    /\ IF "medications.csv" \notin csv_files
       THEN /\ Raise("FileNotFoundError", <<"[4/4]">>)
            /\ db' = db
       ELSE IF IsEmpty(medications)
            THEN /\ Return("drug", <<"[4/4]", "no_medications">>)
                 /\ db' = db
            ELSE IF ParseRaises(Column(medications, "START"))
                 THEN /\ Raise("ValueError", <<"[4/4]">>)
                      /\ db' = db
                 ELSE BulkInsert("drug", "drug_exposure",
                                 DrugTable(medications, person_id_map),
                                 <<"[4/4]", "drug_exposures_mapped">>)
    /\ UNCHANGED <<inputs, person_id_map, deid>>

Next ==
    \/ Main
    \/ MapPerson
    \/ MapObservationPeriod
    \/ MapConditionOccurrence
    \/ MapDrugExposure

Spec == Init /\ [][Next]_vars

\* ------------------------------------------------------ de-identification
\* df[[...]].copy(): the allow-listed columns of each table
PersonClean(person) ==
    [i \in DOMAIN person |->
        [person_id |-> person[i].person_id,
         gender_concept_id |-> person[i].gender_concept_id,
         year_of_birth |-> person[i].year_of_birth,
         race_concept_id |-> person[i].race_concept_id]]
ConditionsClean(cond) ==
    [i \in DOMAIN cond |->
        [condition_occurrence_id |-> cond[i].condition_occurrence_id,
         person_id |-> cond[i].person_id,
         condition_concept_id |-> cond[i].condition_concept_id,
         condition_start_date |-> cond[i].condition_start_date]]
DrugsClean(drug) ==
    [i \in DOMAIN drug |->
        [drug_exposure_id |-> drug[i].drug_exposure_id,
         person_id |-> drug[i].person_id,
         drug_concept_id |-> drug[i].drug_concept_id,
         drug_exposure_start_date |-> drug[i].drug_exposure_start_date]]

\* random.randint(1, 30): the seeded generator's draw is one value of the range
DateShiftRange == 1..30

\* pd.to_datetime(date) + pd.Timedelta(days=days) on one element
ShiftDate(date, days) ==
    IF date = Null THEN Null ELSE Some(date[1] + days * TicksPerDay)

ShiftColumn(df, name, days) ==
    [i \in DOMAIN df |-> [df[i] EXCEPT ![name] = ShiftDate(@, days)]]

LoadData ==
    /\ deid_pc = "load"
    /\ clean' = [person |-> PersonClean(db.person),
                 conditions |-> ConditionsClean(db.condition_occurrence),
                 drugs |-> DrugsClean(db.drug_exposure)]
    /\ deid_pc' = "shift"
    /\ UNCHANGED <<inputs, person_id_map, db, pc, result, raised, log,
                   date_shift, pickle>>

DateShift_TwoDraws ==
    /\ deid_pc = "shift"
    /\ \E s \in DateShiftRange, s2 \in DateShiftRange :
          /\ date_shift' = Some(s)
          /\ clean' = [clean EXCEPT
                 !.conditions = ShiftColumn(@, "condition_start_date", s),
                 !.drugs = ShiftColumn(@, "drug_exposure_start_date", s2)]
    /\ deid_pc' = "save"
    /\ UNCHANGED <<inputs, person_id_map, db, pc, result, raised, log, pickle>>
DateShift ==
    /\ deid_pc = "shift"
    /\ \E s \in DateShiftRange :
          /\ date_shift' = Some(s)
          /\ clean' = [clean EXCEPT
                 !.conditions = ShiftColumn(@, "condition_start_date", s),
                 !.drugs = ShiftColumn(@, "drug_exposure_start_date", s)]
    /\ deid_pc' = "save"
    /\ UNCHANGED <<inputs, person_id_map, db, pc, result, raised, log, pickle>>

SaveData ==
    /\ deid_pc = "save"
    /\ pickle' = Some(clean)
    /\ deid_pc' = "done"
    /\ UNCHANGED <<inputs, person_id_map, db, pc, result, raised, log,
                   clean, date_shift>>

\* the store as a completed mapping run leaves it
DeidConditionFiles ==
    SeqsUpTo({ConditionRow(p, "c1", DateCell(t), NA) :
                 p \in {"p1", "p3"}, t \in Times}, MaxConditions)
DeidMedicationFiles ==
    {<<>>} \cup {<<MedicationRow("p1", "m1", DateCell(t), NA, "")>> : t \in Times}

InitDeid ==
    /\ csv_files = AllCsv
    /\ patients = SamplePatients
    /\ conditions \in DeidConditionFiles
    /\ medications \in DeidMedicationFiles
    /\ person_id_map = PersonIdMap(EmptyDict, patients)
    /\ db = [person |-> PersonTable(patients),
             observation_period |->
                 ObservationPeriodTable(patients, person_id_map, MaxTime),
             condition_occurrence |-> ConditionTable(conditions, person_id_map),
             drug_exposure |-> DrugTable(medications, person_id_map)]
    /\ pc = "returned"
    /\ result = Some(TRUE)
    /\ raised = Null
    /\ log = <<"[1/4]", "persons_mapped", "[2/4]", "observation_periods_created",
               "[3/4]",
               IF conditions = <<>> THEN "no_conditions" ELSE "conditions_mapped",
               "[4/4]",
               IF medications = <<>> THEN "no_medications"
               ELSE "drug_exposures_mapped",
               "etl_complete">>
    /\ clean = EmptyClean
    /\ date_shift = Null
    /\ pickle = Null
    /\ deid_pc = "load"

NextDeid ==
    \/ LoadData
    \/ DateShift
    \/ SaveData

SpecDeid == InitDeid /\ [][NextDeid]_vars

\* ------------------------------------------------------------- properties
InLog(e) == \E i \in DOMAIN log : log[i] = e

StageOrder == <<"[1/4]", "[2/4]", "[3/4]", "[4/4]">>
StagesStarted == SelectSeq(log, LAMBDA e : e \in {"[1/4]", "[2/4]", "[3/4]", "[4/4]"})

\* C1: once map_person has completed on N patient rows, the person table has
\* exactly N rows, and row i carries person_id i and the source identifier of
\* source row i, so the ids are the contiguous range 1..N in file order.
C1_SurrogateIdDensity ==
    InLog("persons_mapped") =>
        /\ Len(db.person) = Len(patients)
        /\ \A i \in 1..Len(patients) :
              /\ db.person[i].person_id = i
              /\ db.person[i].person_source_value = patients[i].Id
        /\ {db.person[i].person_id : i \in DOMAIN db.person} = 1..Len(patients)

C1_Witness ==
    /\ InLog("persons_mapped")
    /\ Len(patients) >= 2
    /\ db.person[2].person_id = 2

\* C2: once map_person has completed, every person_id it assigned is the
\* identity-map value of the source identifier of its own row, and no other
\* source identifier maps to that person_id (also when an identifier repeats).
C2_IdentityMapCompleteness ==
    InLog("persons_mapped") =>
        \A i \in DOMAIN db.person :
            LET r == db.person[i]
            IN  /\ r.person_source_value \in DOMAIN person_id_map
                /\ person_id_map[r.person_source_value] = r.person_id
                /\ \A k \in DOMAIN person_id_map :
                      person_id_map[k] = r.person_id => k = r.person_source_value

\* C3: a condition or medication row whose PATIENT is no key of the identity
\* map still gets its output row (row count equal to the source row count,
\* ids 1..M), with a null person_id, and the stage raises no error for it: a
\* stage that has run on a present, non-empty file whose start dates parse
\* has either written its table or had its insert rejected by the store.
C3_UnmappedReferenceTolerance ==
    /\ InLog("conditions_mapped") =>
          /\ Len(db.condition_occurrence) = Len(conditions)
          /\ \A i \in 1..Len(conditions) :
                /\ db.condition_occurrence[i].condition_occurrence_id = i
                /\ conditions[i].PATIENT \notin DOMAIN person_id_map =>
                      db.condition_occurrence[i].person_id = Null
    /\ InLog("drug_exposures_mapped") =>
          /\ Len(db.drug_exposure) = Len(medications)
          /\ \A i \in 1..Len(medications) :
                /\ db.drug_exposure[i].drug_exposure_id = i
                /\ medications[i].PATIENT \notin DOMAIN person_id_map =>
                      db.drug_exposure[i].person_id = Null
    /\ ( /\ InLog("[3/4]")
         /\ "conditions.csv" \in csv_files
         /\ conditions # <<>>
         /\ \A i \in DOMAIN conditions : conditions[i].START.kind = "date"
         /\ \E i \in DOMAIN conditions :
               conditions[i].PATIENT \notin DOMAIN person_id_map )
       => \/ InLog("conditions_mapped")
          \/ raised = Some("SQLAlchemyError") /\ ~InLog("[4/4]")
    /\ ( /\ InLog("[4/4]")
         /\ "medications.csv" \in csv_files
         /\ medications # <<>>
         /\ \A i \in DOMAIN medications : medications[i].START.kind = "date"
         /\ \E i \in DOMAIN medications :
               medications[i].PATIENT \notin DOMAIN person_id_map )
       => \/ InLog("drug_exposures_mapped")
          \/ raised = Some("SQLAlchemyError")

C3_Witness ==
    /\ InLog("conditions_mapped")
    /\ InLog("drug_exposures_mapped")
    /\ \E i \in DOMAIN conditions :
          /\ conditions[i].PATIENT \notin DOMAIN person_id_map
          /\ db.condition_occurrence[i].person_id = Null
    /\ \E i \in DOMAIN medications :
          /\ medications[i].PATIENT \notin DOMAIN person_id_map
          /\ db.drug_exposure[i].person_id = Null

\* C4: the stages start in the order person, observation period, condition,
\* drug exposure; once a stage has raised nothing more runs, main has
\* returned False, the tables of the stages that completed hold what those
\* stages wrote and the others are empty; main returns True only with all
\* four stages completed.
C4_StageOrderAndFailure ==
    /\ Len(StagesStarted) <= 4
    /\ StagesStarted = SubSeq(StageOrder, 1, Len(StagesStarted))
    /\ result = Some(TRUE) =>
          /\ raised = Null
          /\ InLog("persons_mapped")
          /\ InLog("observation_periods_created")
          /\ InLog("conditions_mapped") \/ InLog("no_conditions")
          /\ InLog("drug_exposures_mapped") \/ InLog("no_medications")
    /\ raised # Null =>
          /\ pc = "returned"
          /\ result = Some(FALSE)
          /\ log[Len(log)] = "pipeline_failed"
          /\ log[Len(log) - 1] \in {"[1/4]", "[2/4]", "[3/4]", "[4/4]"}
    /\ \A i \in DOMAIN log : log[i] = "pipeline_failed" => i = Len(log)
    /\ db.person =
          IF InLog("persons_mapped") THEN PersonTable(patients) ELSE <<>>
    /\ IF InLog("observation_periods_created")
       THEN \E now \in {MaxTime, MaxTime + 1} :
               db.observation_period =
                   ObservationPeriodTable(patients, person_id_map, now)
       ELSE db.observation_period = <<>>
    /\ db.condition_occurrence =
          IF InLog("conditions_mapped")
          THEN ConditionTable(conditions, person_id_map) ELSE <<>>
    /\ db.drug_exposure =
          IF InLog("drug_exposures_mapped")
          THEN DrugTable(medications, person_id_map) ELSE <<>>

C4_Witness ==
    /\ raised # Null
    /\ StagesStarted = <<"[1/4]", "[2/4]", "[3/4]">>
    /\ Len(db.person) > 0
    /\ Len(db.observation_period) > 0
    /\ db.condition_occurrence = <<>>
    /\ result = Some(FALSE)

\* C5: a conditions (medications) table of zero rows makes its stage write
\* nothing and raise nothing; the pipeline goes on to the next stage (or
\* returns True after the last), and the person and observation-period
\* stages have written one row per patient.
C5_EmptyInputResilience ==
    /\ InLog("no_conditions") =>
          /\ db.condition_occurrence = <<>>
          /\ Len(db.person) = Len(patients)
          /\ Len(db.observation_period) = Len(patients)
          /\ pc = "drug" \/ InLog("[4/4]")
          /\ raised # Null => InLog("[4/4]")
    /\ InLog("no_medications") =>
          /\ db.drug_exposure = <<>>
          /\ Len(db.person) = Len(patients)
          /\ Len(db.observation_period) = Len(patients)
          /\ raised = Null
          /\ result = Some(TRUE)
    /\ (InLog("[3/4]") /\ "conditions.csv" \in csv_files /\ conditions = <<>>)
          => InLog("no_conditions")
    /\ (InLog("[4/4]") /\ "medications.csv" \in csv_files /\ medications = <<>>)
          => InLog("no_medications")

C5_Witness ==
    /\ InLog("no_conditions")
    /\ InLog("no_medications")
    /\ Len(patients) > 0
    /\ Len(db.person) = Len(patients)
    /\ Len(db.observation_period) = Len(patients)
    /\ result = Some(TRUE)

C7_DaysSupplyNonNegative ==
    InLog("drug_exposures_mapped") =>
        \A i \in DOMAIN db.drug_exposure :
            /\ db.drug_exposure[i].days_supply # Null
            /\ db.drug_exposure[i].days_supply[1] >= 0

C9_IdentityMapFrame ==
    [][ /\ pc # "person" => person_id_map' = person_id_map
        /\ pc \in {"obs", "cond", "drug"} =>
              /\ person_id_map = PersonIdMap(EmptyDict, patients)
              /\ DOMAIN person_id_map =
                    {patients[i].Id : i \in DOMAIN patients} ]_vars

C9_Witness ==
    /\ pc = "returned"
    /\ InLog("drug_exposures_mapped")
    /\ Cardinality(DOMAIN person_id_map) = 2
    /\ result = Some(TRUE)

\* C10: the de-identification draws one offset in 1..30 and adds that many
\* days to every condition start date and every drug exposure start date,
\* so two such dates keep their order, and the person table is not shifted.
ShiftedDates ==
    {<<db.condition_occurrence[i].condition_start_date,
       clean.conditions[i].condition_start_date>> :
          i \in DOMAIN clean.conditions}
    \cup
    {<<db.drug_exposure[i].drug_exposure_start_date,
       clean.drugs[i].drug_exposure_start_date>> : i \in DOMAIN clean.drugs}

C10_DateShiftTranslation ==
    deid_pc \in {"save", "done"} =>
        /\ date_shift # Null
        /\ date_shift[1] \in 1..30
        /\ Len(clean.conditions) = Len(db.condition_occurrence)
        /\ Len(clean.drugs) = Len(db.drug_exposure)
        /\ \A d \in ShiftedDates :
              d[1] # Null =>
                  d[2] = Some(d[1][1] + date_shift[1] * TicksPerDay)
        /\ \A a, b \in ShiftedDates :
              (a[1] # Null /\ b[1] # Null /\ a[1][1] < b[1][1]) =>
                  (a[2] # Null /\ b[2] # Null /\ a[2][1] < b[2][1])
        /\ clean.person = PersonClean(db.person)
        /\ \A i \in DOMAIN clean.person :
              clean.person[i].year_of_birth = db.person[i].year_of_birth

C10_Witness ==
    /\ deid_pc = "done"
    /\ pickle = Some(clean)
    /\ Len(clean.person) > 0
    /\ \E a, b \in ShiftedDates : a[1] # Null /\ b[1] # Null /\ a[1][1] < b[1][1]
    /\ \E i \in DOMAIN clean.conditions, j \in DOMAIN clean.drugs :
          db.condition_occurrence[i].condition_start_date[1] <
              db.drug_exposure[j].drug_exposure_start_date[1]
====
